---- MODULE Spec2Model ----
(***************************************************************************)
(* A model of clangd's ParsedAST::build (ParsedAST.cpp): the compilation   *)
(* session it opens, the listeners it installs (clang-tidy checks, the     *)
(* preamble replay, the include and macro collectors), the diagnostic      *)
(* level adjuster, the include fixer, the declaration tracker and the      *)
(* assembly of the ParsedAST value.                                        *)
(*                                                                         *)
(* build is straight-line code; pc is its position.  What the compiler     *)
(* does while Action->Execute() runs (preprocessor callbacks, top-level    *)
(* declaration groups, diagnostics, tokens) arrives as one action per      *)
(* callback, enabled while pc = "execute".                                 *)
(* ~ParsedAST on the returned unit is modelled line by line as well; dtor   *)
(* is its position.                                                        *)
(***************************************************************************)
EXTENDS Integers, Sequences, FiniteSets, TLC

VARIABLES
  pc,            \* position of build
  Inputs,        \* the arguments of build (never assigned after Init)
  Clang,         \* the CompilerInstance exists
  Action,        \* the ClangdFrontendAction: "none", "begun"
  CTChecks,      \* names of the instantiated clang-tidy checks
  Adjuster,      \* ASTDiags has the level adjuster
  CTFinder,      \* checks whose matchers are registered with the MatchFinder
  PPCallbacks,   \* the preprocessor's callback chain, newest first
  Delegate,      \* ReplayPreamble::Delegate: the chain it found when attached
  FixIncludes,   \* llvm::Optional<IncludeFixer>: NoFixer or its request count
  FixContributor,\* ASTDiags.contributeFixes was called
  SemaSource,    \* Clang->setExternalSemaSource was called
  Includes,      \* the unit's IncludeStructure::MainFileIncludes
  Macros,        \* the unit's MainFileMacros
  CanonIncludes, \* the unit's CanonicalIncludes
  ppLog,         \* what each listener's PPCallbacks has received, in order
  ASTDiags,      \* the diagnostics StoreDiags holds
  DiagClient,    \* the DiagnosticsEngine's client: "ASTDiags" or "Ignore"
  TopLevelDecls, \* ClangdFrontendAction::TopLevelDecls
  lastDG,        \* the last DeclGroupRef handed to HandleTopLevelDecl
  ParsedDecls,   \* build's local ParsedDecls
  TraversalScope,\* ASTContext's traversal scope: NoScope (whole TU) or decls
  Collecting,    \* the syntax::TokenCollector is still collecting
  Tokens,        \* tokens collected / the consumed TokenBuffer
  builtinExited, \* the preprocessor has left the <built-in> buffer
  matchRuns,     \* how often CTFinder.matchAST ran
  ppEOF,         \* how often Preprocessor::EndSourceFile ran
  indexQueries,  \* requests the SymbolIndex has received
  queriesBefore, \* indexQueries when the current build was called
  builds,        \* calls of build so far
  nGroups,       \* declaration groups the parser has produced
  lexed,         \* tokens the preprocessor has lexed
  ignoredDiags,  \* diagnostics the IgnoreDiagnostics client received
  Log,           \* lines written with log() by the current call of build
  result,        \* what build returned: NotReturned, None or a ParsedAST
  PPOwners,      \* who holds the shared Preprocessor: "Clang", the handle "PP"
  SemaAlive,     \* the ASTContext and Sema exist
  dtor,          \* position of ~ParsedAST on the returned unit
  Directives,    \* the #include directives processed after the preamble
  Out,           \* the structures the collectors were told to fill
  units,         \* the ParsedAST objects: what each one's Clang and Action own
  sessions,      \* per compilation session: how it has been ended and deleted
  arg,           \* CRunnerUtils.h: the unsigned N, or sizeof(T[Dim]), at hand
  value,         \* the value of detail::nextPowerOf2<N>() once instantiated
  vec            \* the layout of Vector<T, Dim> once declared

vars == <<pc, Inputs, Clang, Action, CTChecks, Adjuster, CTFinder, PPCallbacks,
          Delegate, FixIncludes, FixContributor, SemaSource, Includes, Macros,
          CanonIncludes, ppLog, ASTDiags, DiagClient, TopLevelDecls, lastDG,
          ParsedDecls, TraversalScope, Collecting, Tokens, builtinExited,
          matchRuns, ppEOF, indexQueries, queriesBefore, builds, nGroups,
          lexed, ignoredDiags, Log, result, PPOwners, SemaAlive, dtor,
          Directives, Out, units, sessions, arg, value, vec>>

----------------------------------------------------------------------------
(* Bounds of the model.                                                    *)

\* longest CompilerInvocationDiags / Preamble->Diags
MaxDiagSeg == 2
\* diagnostics emitted while one unit is built (Spec, SpecReplay)
MaxBuildDiags == 2
\* diagnostics emitted while one unit is built (SpecAdjust)
MaxAdjustDiags == 1
\* diagnostics emitted while one unit is built (SpecFix)
MaxUnresolved == 6
\* diagnostics emitted while one unit is built (SpecRepair)
MaxRepairDiags == 2
\* longest Preamble->Includes.MainFileIncludes
MaxPreInc == 2
\* #include directives after the preamble
MaxFresh == 2
\* top-level declaration groups handed to the consumer
MaxGroups == 2
\* longest declaration group (SpecDecls)
MaxGroupLen == 1
\* tokens lexed
MaxTokens == 1
\* calls of build on the same inputs
MaxBuilds == 2
\* ParsedAST objects that exist at the same time (SpecMove)
MaxUnits == 3
\* compilation sessions build creates (SpecMove)
MaxSessions == 3
\* every N up to this one is a template argument tried (SpecVector), with
\* the values next to each power of two above it
MaxSmall == 33

----------------------------------------------------------------------------
(* Values.                                                                 *)

NoPreamble == [absent |-> TRUE]
NoFixer == [absent |-> TRUE]
NoScope == [absent |-> TRUE]
\* What build has returned: nothing yet, llvm::None, or a ParsedAST (a record
\* with state "unit" and the members of the class).
NotReturned == [state |-> "NotReturned"]
None == [state |-> "None"]
\* No collector exists yet.
NoOut == [Includes |-> "none", Macros |-> "none", CanonIncludes |-> "none"]

Levels == {"Ignored", "Note", "Warning", "Error", "Fatal"}

\* The checks the registry offers.
CheckNames == {"R", "S"}

\* The PPCallbacks build itself adds, and everything that can listen.
Collectors == {"IncludeCollector", "CollectMainFileMacros"}
Listeners == CheckNames \cup Collectors

\* Sequences over S of length at most n.
SeqUpTo(S, n) == UNION {[1..k -> S] : k \in 0..n}

\* An Inclusion record of Headers.h.  Written is the spelling with its
\* delimiters, one character per element; Resolved is "" when unresolved.
IncRec(w, r, off, k) ==
  [Written |-> w, Resolved |-> r, HashOffset |-> off, FileKind |-> k]

IncRecords ==
  { IncRec(<<"\"", "a", ".", "h", "\"">>, "/a.h", 0, "user"),
    IncRec(<<"<", "b", ">">>, "/b", 1, "system"),
    IncRec(<<"\"", "u", "\"">>, "", 2, "user") }

\* The include a fresh (post-preamble) directive names.
FreshRecords ==
  { IncRec(<<"\"", "f", "\"">>, "/f", 3, "user"),
    IncRec(<<"<", "a", ".", "h", ">">>, "/a.h", 3, "system") }

Paths == {"/a.h", "/b"}

\* A Diag.  seg says where it came from ("cfg": CompilerInvocationDiags,
\* "pre": Preamble->Diags, "ast": StoreDiags), n its position there; orig is
\* the level the DiagnosticsEngine reported, level the level stored.
MkDiag(seg, n, info, lvl, fixes) ==
  [seg |-> seg, n |-> n, check |-> info.check, orig |-> info.level,
   inMain |-> info.inMain, hasSM |-> info.hasSM, nolint |-> info.nolint,
   unres |-> info.unres, level |-> lvl, fixes |-> fixes]

\* What the DiagnosticsEngine hands to the consumer: a level and a
\* clang::Diagnostic.  check is the owning check's name ("" for the compiler),
\* nolint says how a NOLINT comment covers the location ("direct": on the
\* location itself, "macro": only through a macro expansion), unres whether
\* it names an unresolved symbol ("known"/"unknown" to the index).
DiagInfo(lvl, chk, inMain, hasSM, nolint, unres) ==
  [level |-> lvl, check |-> chk, inMain |-> inMain, hasSM |-> hasSM,
   nolint |-> nolint, unres |-> unres]

CoreError == DiagInfo("Error", "", TRUE, TRUE, "none", "no")

SegDiags(seg, k) ==
  [i \in 1..k |-> MkDiag(seg, i, CoreError, "Error", <<>>)]

\* A top-level declaration, as far as HandleTopLevelDecl looks at it.
\* cls is its class, tsk its template specialization kind.
DeclKinds ==
  { [cls |-> c, inMain |-> m, tsk |-> t] :
      c \in {"VarDecl"}, m \in BOOLEAN,
      t \in {"TSK_Undeclared", "TSK_ImplicitInstantiation"} }
  \cup
  { [cls |-> c, inMain |-> m, tsk |-> "TSK_Undeclared"] :
      c \in {"ObjCMethodDecl", "StaticAssertDecl"}, m \in BOOLEAN }

----------------------------------------------------------------------------
(* The arguments of build.                                                 *)

HasPreamble == ~Inputs.Preamble.absent

MkPreamble(incs, diags) ==
  [absent |-> FALSE, Includes |-> incs, Diags |-> diags,
   Macros |-> {"PREAMBLE_MACRO"}, CanonIncludes |-> {"preamble-mapping"}]

\* A check of the registry: whether it supports the language, whether its
\* registerPPCallbacks adds a listener, whether registerMatchers adds one.
CheckImpl(sup, pp, m) == [supported |-> sup, pp |-> pp, matchers |-> m]

\* createChecks returns the checks in this order.
CheckOrder == <<"R", "S">>

MkInputs(pre, cfg, suggest, wae, idx, dir, disk, reg) ==
  [Filename |-> "main.cpp", Preamble |-> pre, CompilerInvocationDiags |-> cfg,
   SuggestMissingIncludes |-> suggest, WarningsAsErrors |-> wae,
   Index |-> idx, BuildDirOK |-> dir, Disk |-> disk, Registry |-> reg]

----------------------------------------------------------------------------
(* DeclTrackingASTConsumer.                                                *)

\* isInsideMainFile(D->getLocation(), SM)
isInsideMainFile(x) == x.inMain

\* dyn_cast<NamedDecl>(D) succeeds
IsNamedDecl(D) == D.cls \in {"VarDecl", "ObjCMethodDecl"}

\* isImplicitTemplateInstantiation(ND)
isImplicitTemplateInstantiation(ND) == ND.tsk = "TSK_ImplicitInstantiation"

\* KeepsDecl without the test for ObjCMethodDecl
KeepsDeclNoObjCTest(D) ==
  IF ~isInsideMainFile(D) THEN FALSE
  ELSE IF IsNamedDecl(D) /\ isImplicitTemplateInstantiation(D) THEN FALSE
  ELSE TRUE

\* The body of the loop of HandleTopLevelDecl: TRUE when D is pushed back.
KeepsDecl(D) ==
  IF ~isInsideMainFile(D) THEN FALSE
  ELSE IF IsNamedDecl(D) /\ isImplicitTemplateInstantiation(D) THEN FALSE
  ELSE IF D.cls = "ObjCMethodDecl" THEN FALSE
  ELSE TRUE

\* TopLevelDecls after the loop over DG.
RECURSIVE TrackDecls(_, _)
TrackDecls(decls, DG) ==
  IF DG = <<>> THEN decls
  ELSE TrackDecls(IF KeepsDecl(Head(DG)) THEN Append(decls, Head(DG))
                  ELSE decls,
                  Tail(DG))

----------------------------------------------------------------------------
(* The level adjuster given to ASTDiags.                                   *)

\* CTContext->treatAsError(CheckName)
treatAsError(CheckName) == CheckName \in Inputs.WarningsAsErrors

\* tidy::shouldSuppressDiagnostic(DiagLevel, Info, Context,
\* CheckMacroExpansion): a suppression comment covers the location, found
\* through macro expansions only when CheckMacroExpansion is set.
shouldSuppressDiagnostic(DiagLevel, Info, CheckMacroExpansion) ==
  \/ Info.nolint = "direct"
  \/ CheckMacroExpansion /\ Info.nolint = "macro"

\* LevelAdjuster with the suppression comment looked at first
LevelAdjusterSuppressFirst(DiagLevel, Info) ==
  LET CheckName == Info.check
      IsInsideMainFile == Info.hasSM /\ isInsideMainFile(Info)
  IN  IF CheckName # ""
      THEN IF IsInsideMainFile
              /\ shouldSuppressDiagnostic(DiagLevel, Info, FALSE)
           THEN "Ignored"
           ELSE IF DiagLevel = "Warning" /\ treatAsError(CheckName)
                THEN "Error"
                ELSE DiagLevel
      ELSE DiagLevel

\* LevelAdjuster promoting every check's warning, configured as error or not
LevelAdjusterAlwaysError(DiagLevel, Info) ==
  LET CheckName == Info.check
      IsInsideMainFile == Info.hasSM /\ isInsideMainFile(Info)
  IN  IF CheckName # ""
      THEN IF DiagLevel = "Warning"
           THEN "Error"
           ELSE IF IsInsideMainFile
                   /\ shouldSuppressDiagnostic(DiagLevel, Info, FALSE)
                THEN "Ignored"
                ELSE DiagLevel
      ELSE DiagLevel

\* LevelAdjuster promoting every level of a check configured as error
LevelAdjusterEscalatesAnyLevel(DiagLevel, Info) ==
  LET CheckName == Info.check
      IsInsideMainFile == Info.hasSM /\ isInsideMainFile(Info)
  IN  IF CheckName # ""
      THEN IF treatAsError(CheckName)
           THEN "Error"
           ELSE IF IsInsideMainFile
                   /\ shouldSuppressDiagnostic(DiagLevel, Info, FALSE)
                THEN "Ignored"
                ELSE DiagLevel
      ELSE DiagLevel

\* LevelAdjuster asking for a suppression comment wherever the diagnostic is
LevelAdjusterSuppressAnywhere(DiagLevel, Info) ==
  LET CheckName == Info.check
  IN  IF CheckName # ""
      THEN IF DiagLevel = "Warning" /\ treatAsError(CheckName)
           THEN "Error"
           ELSE IF shouldSuppressDiagnostic(DiagLevel, Info, FALSE)
                THEN "Ignored"
                ELSE DiagLevel
      ELSE DiagLevel

\* The lambda of setLevelAdjuster.  CTContext is set for the whole build.
LevelAdjuster(DiagLevel, Info) ==
  LET CheckName == Info.check
      IsClangTidyDiag == CheckName # ""
      IsInsideMainFile == Info.hasSM /\ isInsideMainFile(Info)
  IN  IF IsClangTidyDiag
      THEN IF DiagLevel = "Warning" /\ treatAsError(CheckName)
           THEN "Error"
           ELSE IF IsInsideMainFile
                   /\ shouldSuppressDiagnostic(DiagLevel, Info, FALSE)
                THEN "Ignored"
                ELSE DiagLevel
      ELSE DiagLevel

----------------------------------------------------------------------------
(* ReplayPreamble.                                                         *)

\* llvm::StringRef::drop_front() and drop_back()
drop_front(str) == SubSeq(str, 2, Len(str))
drop_back(str) == SubSeq(str, 1, Len(str) - 1)
\* llvm::StringRef::startswith, for a one-character prefix
startswith(str, c) == Len(str) >= 1 /\ str[1] = c

\* SM.getFileManager().getFile(path) succeeds
getFile(path) == path \in Inputs.Disk

\* A notification as a check's PPCallbacks sees it.  src is "replay" for the
\* ones ReplayPreamble sends and "live" for the preprocessor's own.
Notification(kind, written, angled, file, off, src) ==
  [kind |-> kind, written |-> written, angled |-> angled, file |-> file,
   hashLoc |-> off, src |-> src]

\* ReplayOne passing the spelling with its closing delimiter
ReplayOneRawSpelling(Inc) ==
  LET File == IF Inc.Resolved # "" /\ getFile(Inc.Resolved)
              THEN Inc.Resolved ELSE ""
      WrittenFilename == drop_front(Inc.Written)
      Angled == startswith(Inc.Written, "<")
  IN  << Notification("InclusionDirective", WrittenFilename, Angled, File,
                      Inc.HashOffset, "replay"),
         IF File # ""
         THEN Notification("FileSkipped", <<>>, FALSE, File,
                           Inc.HashOffset, "replay")
         ELSE Notification("FileNotFound", WrittenFilename, FALSE, "",
                           Inc.HashOffset, "replay") >>

\* The body of the loop of replay(): what Delegate receives for one Inc.
ReplayOne(Inc) ==
  LET File == IF Inc.Resolved # "" /\ getFile(Inc.Resolved)
              THEN Inc.Resolved ELSE ""
      WrittenFilename == drop_back(drop_front(Inc.Written))
      Angled == startswith(Inc.Written, "<")
  IN  << Notification("InclusionDirective", WrittenFilename, Angled, File,
                      Inc.HashOffset, "replay"),
         IF File # ""
         THEN Notification("FileSkipped", <<>>, FALSE, File,
                           Inc.HashOffset, "replay")
         ELSE Notification("FileNotFound", WrittenFilename, FALSE, "",
                           Inc.HashOffset, "replay") >>

\* replay() leaving its loop at the first include it cannot open
RECURSIVE replayStopsAtMissing(_)
replayStopsAtMissing(MainFileIncludes) ==
  IF MainFileIncludes = <<>> THEN <<>>
  ELSE LET Inc == Head(MainFileIncludes)
       IN  IF Inc.Resolved # "" /\ getFile(Inc.Resolved)
           THEN ReplayOne(Inc) \o replayStopsAtMissing(Tail(MainFileIncludes))
           ELSE ReplayOne(Inc)

\* replay(): the loop over Includes.MainFileIncludes.
RECURSIVE replay(_)
replay(MainFileIncludes) ==
  IF MainFileIncludes = <<>> THEN <<>>
  ELSE ReplayOne(Head(MainFileIncludes)) \o replay(Tail(MainFileIncludes))

----------------------------------------------------------------------------
(* IncludeFixer and StoreDiags.                                            *)

\* A limit one request higher
IndexRequestLimitPlusOne == 5 + 1

\* /*IndexRequestLimit=*/ of the IncludeFixer build constructs
IndexRequestLimit == 5

\* IncludeFixer::fix on a diagnostic: the fixes it returns and whether it
\* asked the index.  It asks only for an unresolved symbol and only while
\* its request count is below its limit.
FixAsksIndex(fixer, Info) ==
  Info.unres # "no" /\ fixer.count < fixer.limit

FixResult(fixer, Info) ==
  IF FixAsksIndex(fixer, Info) /\ Info.unres = "known"
  THEN <<"#include \"b.h\"">> ELSE <<>>

\* AssembleDiags with the preamble's diagnostics added last
AssembleDiagsPreambleLast(cfg, hasPre, pre, ast) ==
  cfg \o ast \o (IF hasPre THEN pre ELSE <<>>)

\* The order in which build puts the three lists into Diags.
AssembleDiags(cfg, hasPre, pre, ast) ==
  cfg \o (IF hasPre THEN pre ELSE <<>>) \o ast

----------------------------------------------------------------------------
(* The state when build is called.                                         *)

\* Everything build creates, before it has run a line.
FreshSession ==
  /\ pc = "start"
  /\ Clang = FALSE
  /\ Action = "none"
  /\ CTChecks = {}
  /\ Adjuster = FALSE
  /\ CTFinder = {}
  /\ PPCallbacks = <<>>
  /\ Delegate = <<>>
  /\ FixIncludes = NoFixer
  /\ FixContributor = FALSE
  /\ SemaSource = FALSE
  /\ Includes = <<>>
  /\ Macros = {}
  /\ CanonIncludes = {}
  /\ ppLog = [c \in Listeners |-> <<>>]
  /\ ASTDiags = <<>>
  /\ DiagClient = "ASTDiags"
  /\ TopLevelDecls = <<>>
  /\ lastDG = <<>>
  /\ ParsedDecls = <<>>
  /\ TraversalScope = NoScope
  /\ Collecting = FALSE
  /\ Tokens = <<>>
  /\ builtinExited = FALSE
  /\ matchRuns = 0
  /\ ppEOF = 0
  /\ nGroups = 0
  /\ lexed = 0
  /\ ignoredDiags = 0
  /\ Log = <<>>
  /\ result = NotReturned
  /\ PPOwners = {}
  /\ SemaAlive = FALSE
  /\ dtor = "none"
  /\ Directives = <<>>
  /\ Out = NoOut

----------------------------------------------------------------------------
(* CRunnerUtils.h: unsigned arithmetic, detail::isPowerOf2,                *)
(* detail::nextPowerOf2 and the layout of a 1-D Vector.                    *)

\* unsigned has 32 bits; a value is kept as the set of the positions of its
\* bits that are 1, so {} is 0, {0} is 1 and {31} is 2^31.
Bits == 0..31
Zero == {}
One == {0}
\* 2^k for k in 0..31
Pow2(k) == {k}
\* the unsigned value of a number below 2^16
FromNat(n) == {b \in 0..15 : (n \div 2^b) % 2 = 1}

\* the highest and the lowest position of a non-empty set of positions
Top(a) == CHOOSE b \in a : \A c \in a : c <= b
Low(a) == CHOOSE b \in a : \A c \in a : b <= c

\* a < b for unsigned values: b has the highest bit in which they differ
Less(a, b) ==
  LET differ == (a \ b) \cup (b \ a)
  IN  differ # {} /\ Top(differ) \in b

\* N + 1 and N - 1 in unsigned arithmetic: they wrap around
PlusOne(N) ==
  IF Bits \ N = {} THEN Zero
  ELSE {b \in N : b > Low(Bits \ N)} \cup {Low(Bits \ N)}

MinusOne(N) ==
  IF N = Zero THEN Bits
  ELSE {b \in N : b > Low(N)} \cup 0..(Low(N) - 1)

\* N / 2 and 2 * N in unsigned arithmetic; 2 * N loses the top bit
DivTwo(N) == {b - 1 : b \in N \ {0}}

Twice(N) == {b + 1 : b \in N \ {31}}

\* a - b and a + b in unsigned arithmetic
RECURSIVE Minus(_, _)
Minus(a, b) ==
  IF b = Zero THEN a
  ELSE Minus((a \ b) \cup (b \ a), Twice(b \ a))

RECURSIVE Plus(_, _)
Plus(a, b) ==
  IF b = Zero THEN a
  ELSE Plus((a \ b) \cup (b \ a), Twice(a \cap b))

\* a & b
BitAnd(a, b) == a \cap b

\* template <unsigned N> isPowerOf2(): !(N & (N - 1))
isPowerOf2(N) == BitAnd(N, MinusOne(N)) = Zero

\* template <unsigned N> nextPowerOf2(), with its specialisations for 0 and 1
RECURSIVE nextPowerOf2(_)
nextPowerOf2(N) ==
  IF N = Zero THEN One
  ELSE IF N = One THEN One
  ELSE IF isPowerOf2(N) THEN N
  ELSE Twice(nextPowerOf2(DivTwo(PlusOne(N))))

\* nextPowerOf2<N>() not instantiated yet; no Vector declared yet
NoValue == [done |-> FALSE, v |-> Zero]
NoVector == [declared |-> FALSE, compiles |-> FALSE, payload |-> Zero,
             padding |-> Zero, size |-> Zero]

\* Vector<T, Dim> with sizeof(T[Dim]) = S, a class derived from
\* Vector1D<T, Dim, isPowerOf2<S>()>: T vector[Dim] alone for a power of two,
\* else followed by char padding[nextPowerOf2<S>() - S].  The static_asserts
\* and the array bound, computed in size_t, reject the other sizes.
Vector(S) ==
  LET P == nextPowerOf2(S)
  IN  IF isPowerOf2(S)
      THEN [declared |-> TRUE, compiles |-> P = S, payload |-> S,
            padding |-> Zero, size |-> S]
      ELSE [declared |-> TRUE,
            compiles |-> /\ Less(S, P)
                         /\ (Less(S, Pow2(31)) => Less(P, Twice(S))),
            payload |-> S, padding |-> Minus(P, S),
            size |-> Plus(S, Minus(P, S))]

\* A place for a ParsedAST with no object in it; a live object's Clang and
\* Action name the session they own, 0 for a null pointer.
NoUnit == [state |-> "free", Clang |-> 0, Action |-> 0]
\* A session build has not created yet.  ended counts the calls of
\* Action->EndSourceFile() by ~ParsedAST, clangDeleted and actionDeleted the
\* deletions of its CompilerInstance and its FrontendAction.
NoSession == [created |-> FALSE, ended |-> 0, clangDeleted |-> 0,
              actionDeleted |-> 0]

InitWith(inputs) ==
  /\ Inputs \in inputs
  /\ FreshSession
  /\ units = [u \in 1..MaxUnits |-> NoUnit]
  /\ sessions = [s \in 1..MaxSessions |-> NoSession]
  /\ arg = Zero
  /\ value = NoValue
  /\ vec = NoVector
  /\ indexQueries = 0
  /\ queriesBefore = 0
  /\ builds = 1

\* R listens to the preprocessor and matches, S only matches.
DefaultRegistry ==
  [c \in CheckNames |->
     IF c = "R" THEN CheckImpl(TRUE, TRUE, TRUE)
     ELSE CheckImpl(TRUE, FALSE, TRUE)]

PreambleChoices(incLists) ==
  {NoPreamble} \cup
  { MkPreamble(incs, SegDiags("pre", k)) :
      incs \in incLists, k \in {0, MaxDiagSeg} }

----------------------------------------------------------------------------
(* build, line by line.                                                    *)

session == <<Clang, Action, CTChecks, Adjuster, CTFinder, PPCallbacks,
             Delegate, FixIncludes, FixContributor, SemaSource, Includes,
             Macros, CanonIncludes>>
parsed == <<TopLevelDecls, lastDG, ParsedDecls, TraversalScope, Collecting,
            Tokens, builtinExited, nGroups, lexed>>
diagst == <<ASTDiags, DiagClient, ignoredDiags, indexQueries>>
calls == <<queriesBefore, builds>>
layout == <<arg, value, vec>>
objects == <<units, sessions, layout>>
lifetime == <<PPOwners, SemaAlive, dtor>>

LogLine(msg) == [msg |-> msg, file |-> Inputs.Filename]

\* prepareCompilerInstance and the early return
Prepare ==
  /\ pc = "start"
  /\ \E ok \in BOOLEAN :
       IF ok
       THEN /\ Clang' = TRUE
            /\ pc' = "prepared"
            /\ UNCHANGED result
       ELSE /\ result' = None
            /\ pc' = "done"
            /\ UNCHANGED Clang
  /\ UNCHANGED <<Inputs, Action, CTChecks, Adjuster, CTFinder, PPCallbacks,
                 Delegate, FixIncludes, FixContributor, SemaSource, Includes,
                 Macros, CanonIncludes, ppLog, parsed, diagst, calls, objects,
                 matchRuns, ppEOF, Log>>
  /\ UNCHANGED <<lifetime, Directives, Out>>

\* BeginSourceFile logging the failure and going on
BeginSourceFileNoReturn ==
  /\ pc = "prepared"
  /\ \E ok \in BOOLEAN :
       IF ok
       THEN /\ Action' = "begun"
            /\ PPOwners' = {"Clang"}
            /\ SemaAlive' = TRUE
            /\ UNCHANGED Log
       ELSE /\ Log' = Append(Log, LogLine("BeginSourceFile() failed"))
            /\ UNCHANGED <<Action, PPOwners, SemaAlive>>
  /\ pc' = "begun"
  /\ UNCHANGED <<Inputs, Clang, CTChecks, Adjuster, CTFinder, PPCallbacks,
                 Delegate, FixIncludes, FixContributor, SemaSource, Includes,
                 Macros, CanonIncludes, ppLog, parsed, diagst, calls, objects,
                 matchRuns, ppEOF, result>>
  /\ UNCHANGED <<dtor, Directives, Out>>

\* Action->BeginSourceFile and the early return
BeginSourceFile ==
  /\ pc = "prepared"
  /\ \E ok \in BOOLEAN :
       IF ok
       THEN /\ Action' = "begun"
            \* the session owns a Preprocessor, an ASTContext and a Sema
            /\ PPOwners' = {"Clang"}
            /\ SemaAlive' = TRUE
            /\ pc' = "begun"
            /\ UNCHANGED <<result, Log, Clang>>
       ELSE /\ Log' = Append(Log, LogLine("BeginSourceFile() failed"))
            /\ result' = None
            /\ pc' = "done"
            \* Clang and Action are locals of build: gone with the return
            /\ Clang' = FALSE
            /\ UNCHANGED <<Action, PPOwners, SemaAlive>>
  /\ UNCHANGED <<Inputs, CTChecks, Adjuster, CTFinder, PPCallbacks,
                 Delegate, FixIncludes, FixContributor, SemaSource, Includes,
                 Macros, CanonIncludes, ppLog, parsed, diagst, calls, objects,
                 matchRuns, ppEOF>>
  /\ UNCHANGED <<dtor, Directives, Out>>

\* The loop over CTChecks: the callback chain and the finder after it.
RECURSIVE RegisterChecks(_, _, _)
RegisterChecks(checks, chain, finder) ==
  IF checks = <<>> THEN [chain |-> chain, finder |-> finder]
  ELSE LET c == Head(checks)
           impl == Inputs.Registry[c]
       IN  IF ~impl.supported
           THEN RegisterChecks(Tail(checks), chain, finder)
           ELSE RegisterChecks(
                  Tail(checks),
                  IF impl.pp THEN <<c>> \o chain ELSE chain,
                  IF impl.matchers THEN finder \cup {c} ELSE finder)

\* The ClangTidyInit block
TidyInit ==
  /\ pc = "begun"
  /\ CTChecks' = {CheckOrder[i] : i \in DOMAIN CheckOrder}
  /\ Adjuster' = TRUE
  /\ LET r == RegisterChecks(CheckOrder, PPCallbacks, CTFinder)
     IN  /\ PPCallbacks' = r.chain
         /\ CTFinder' = r.finder
  /\ pc' = "tidy"
  /\ UNCHANGED <<Inputs, Clang, Action, Delegate, FixIncludes,
                 FixContributor, SemaSource, Includes, Macros, CanonIncludes,
                 ppLog, parsed, diagst, calls, objects, matchRuns, ppEOF, Log, result>>
  /\ UNCHANGED <<lifetime, Directives, Out>>

\* InstallsFixer without the test of the working directory
InstallsFixerAnyDir ==
  Inputs.SuggestMissingIncludes /\ Inputs.Index

\* The condition under which build adds the IncludeFixer
InstallsFixer ==
  Inputs.SuggestMissingIncludes /\ Inputs.Index /\ Inputs.BuildDirOK

\* The IncludeFixer block
FixerSetup ==
  /\ pc = "tidy"
  /\ IF InstallsFixer
     THEN /\ FixIncludes' = [absent |-> FALSE, count |-> 0,
                             limit |-> IndexRequestLimit]
          /\ FixContributor' = TRUE
          /\ SemaSource' = TRUE
     ELSE UNCHANGED <<FixIncludes, FixContributor, SemaSource>>
  /\ pc' = "fixer"
  /\ UNCHANGED <<Inputs, Clang, Action, CTChecks, Adjuster, CTFinder,
                 PPCallbacks, Delegate, Includes, Macros, CanonIncludes,
                 ppLog, parsed, diagst, calls, objects, matchRuns, ppEOF, Log, result>>
  /\ UNCHANGED <<lifetime, Directives, Out>>

\* attach without the test for existing callbacks
attachAlways(chain) ==
  <<"ReplayPreamble">> \o chain

\* ReplayPreamble::attach: the chain after it, given the chain before
attach(chain) ==
  IF chain = <<>> THEN chain ELSE <<"ReplayPreamble">> \o chain

\* InstallListeners adding the include collector before ReplayPreamble
InstallListenersCollectorFirst(chain) ==
  LET withCollector == <<"IncludeCollector">> \o chain
      afterReplay == IF HasPreamble THEN attach(withCollector)
                     ELSE withCollector
  IN  [Delegate |-> IF afterReplay # withCollector THEN withCollector
                    ELSE <<>>,
       chain |-> <<"CollectMainFileMacros">> \o afterReplay]

\* InstallListeners adding the macro collector before ReplayPreamble
InstallListenersMacrosFirst(chain) ==
  LET withMacros == <<"CollectMainFileMacros">> \o chain
      afterReplay == IF HasPreamble THEN attach(withMacros) ELSE withMacros
  IN  [Delegate |-> IF afterReplay # withMacros THEN withMacros ELSE <<>>,
       chain |-> <<"IncludeCollector">> \o afterReplay]

\* if (Preamble) ReplayPreamble::attach, then the two addPPCallbacks: the
\* Delegate of ReplayPreamble and the chain afterwards, given the chain
\* before.
InstallListeners(chain) ==
  LET afterReplay == IF HasPreamble THEN attach(chain) ELSE chain
  IN  [Delegate |-> IF afterReplay # chain THEN chain ELSE <<>>,
       chain |-> <<"CollectMainFileMacros", "IncludeCollector">>
                 \o afterReplay]

\* The collectors filling the preamble's own structures
CollectorTargetsInPreamble ==
  IF HasPreamble
  THEN [Includes |-> "preamble", Macros |-> "preamble",
        CanonIncludes |-> "preamble"]
  ELSE [Includes |-> "unit", Macros |-> "unit", CanonIncludes |-> "unit"]

\* What the collectors are given to fill: build's locals Includes, Macros
\* and CanonIncludes, which are copies of the preamble's.
CollectorTargets ==
  [Includes |-> "unit", Macros |-> "unit", CanonIncludes |-> "unit"]

\* From the copy of the preamble's includes to the TokenCollector
AttachListeners ==
  /\ pc = "fixer"
  /\ Includes' = IF HasPreamble THEN Inputs.Preamble.Includes ELSE <<>>
  /\ LET r == InstallListeners(PPCallbacks)
     IN  /\ Delegate' = r.Delegate
         /\ PPCallbacks' = r.chain
  /\ Macros' = IF HasPreamble THEN Inputs.Preamble.Macros ELSE {}
  /\ CanonIncludes' = IF HasPreamble THEN Inputs.Preamble.CanonIncludes
                      ELSE {"system-headers-mapping"}
  /\ Out' = CollectorTargets
  /\ Collecting' = TRUE
  /\ pc' = "execute"
  /\ UNCHANGED <<Inputs, Clang, Action, CTChecks, Adjuster, CTFinder,
                 FixIncludes, FixContributor, SemaSource, ppLog,
                 TopLevelDecls, lastDG, ParsedDecls, TraversalScope, Tokens,
                 builtinExited, nGroups, lexed, diagst, calls, objects, matchRuns,
                 ppEOF, Log, result>>
  /\ UNCHANGED <<lifetime, Directives>>

----------------------------------------------------------------------------
(* What happens inside Action->Execute(), matchAST and EndSourceFile.      *)

InSeq(x, seq) == \E i \in DOMAIN seq : seq[i] = x

\* The checks that listen to the preprocessor
ListeningChecks == {c \in CheckNames : InSeq(c, PPCallbacks)}

\* The test of ReplayPreamble::FileChanged without the buffer's name
IsBuiltinExitAnyBuffer(Reason, PrevFID) ==
  Reason = "ExitFile"

\* The test of ReplayPreamble::FileChanged: the preprocessor leaves <built-in>
IsBuiltinExit(Reason, PrevFID) ==
  Reason = "ExitFile" /\ PrevFID = "<built-in>"

\* FileChangedFor with the include collector among the listeners the replay
\* is delivered to
FileChangedForReplaysToCollector(c, Reason, PrevFID, MainFileIncludes) ==
  (IF /\ InSeq("ReplayPreamble", PPCallbacks)
      /\ (InSeq(c, Delegate) \/ c = "IncludeCollector")
      /\ IsBuiltinExit(Reason, PrevFID)
   THEN replay(MainFileIncludes) ELSE <<>>)
  \o (IF InSeq(c, PPCallbacks)
      THEN <<Notification("FileChanged", <<>>, FALSE, "", 0, "live")>>
      ELSE <<>>)

\* What listener c receives when the preprocessor reports a file change to
\* the chain: ReplayPreamble was added after the listeners of Delegate, so it
\* runs, and replays MainFileIncludes to them, before their own FileChanged.
FileChangedFor(c, Reason, PrevFID, MainFileIncludes) ==
  (IF /\ InSeq("ReplayPreamble", PPCallbacks)
      /\ InSeq(c, Delegate)
      /\ IsBuiltinExit(Reason, PrevFID)
   THEN replay(MainFileIncludes) ELSE <<>>)
  \o (IF InSeq(c, PPCallbacks)
      THEN <<Notification("FileChanged", <<>>, FALSE, "", 0, "live")>>
      ELSE <<>>)

\* The Inclusion the include collector records for an InclusionDirective
\* notification n.
Collected(n) ==
  IncRec((IF n.angled THEN <<"<">> ELSE <<"\"">>) \o n.written
         \o (IF n.angled THEN <<">">> ELSE <<"\"">>),
         n.file, n.hashLoc, "user")

\* The Inclusions recorded for the notifications of log, in order
RECURSIVE CollectedAll(_)
CollectedAll(log) ==
  IF log = <<>> THEN <<>>
  ELSE (IF Head(log).kind = "InclusionDirective"
        THEN <<Collected(Head(log))>> ELSE <<>>)
       \o CollectedAll(Tail(log))

\* The include collector appends recs to the structure it was given.
StoreIncludes(recs) ==
  /\ Includes' = IF Out.Includes = "unit" THEN Includes \o recs ELSE Includes
  /\ Inputs' = IF Out.Includes = "preamble"
               THEN [Inputs EXCEPT !.Preamble.Includes = @ \o recs]
               ELSE Inputs

\* The preprocessor leaves <built-in> and reports it to the chain.
FileChanged ==
  /\ pc = "execute"
  /\ ~builtinExited
  /\ builtinExited' = TRUE
  /\ ppLog' =
       [c \in Listeners |->
          ppLog[c] \o FileChangedFor(c, "ExitFile", "<built-in>", Includes)]
  /\ StoreIncludes(
       CollectedAll(FileChangedFor("IncludeCollector", "ExitFile",
                                   "<built-in>", Includes)))
  /\ UNCHANGED <<pc, Clang, Action, CTChecks, Adjuster, CTFinder,
                 PPCallbacks, Delegate, FixIncludes, FixContributor,
                 SemaSource, Macros, CanonIncludes, TopLevelDecls, lastDG,
                 ParsedDecls, TraversalScope, Collecting, Tokens, nGroups,
                 lexed, diagst, calls, objects, matchRuns, ppEOF, Log, result>>
  /\ UNCHANGED <<lifetime, Directives, Out>>

\* An #include directive after the preamble: the preprocessor tells every
\* listener of the chain and the include collector appends it; a header that
\* was found is entered and left, which the chain is told as well.
InclusionDirective(Inc) ==
  /\ pc = "execute"
  /\ builtinExited
  /\ Len(Directives) < MaxFresh
  /\ Directives' = Append(Directives, Inc)
  /\ LET collects == InSeq("IncludeCollector", PPCallbacks)
         after == IF collects /\ Out.Includes = "unit"
                  THEN Append(Includes, Inc) ELSE Includes
     IN  /\ StoreIncludes(IF collects THEN <<Inc>> ELSE <<>>)
         /\ ppLog' =
              [c \in Listeners |->
                 ppLog[c]
                 \o (IF InSeq(c, PPCallbacks)
                     THEN <<Notification("InclusionDirective",
                                         drop_back(drop_front(Inc.Written)),
                                         startswith(Inc.Written, "<"),
                                         Inc.Resolved, Inc.HashOffset,
                                         "live")>>
                     ELSE <<>>)
                 \o (IF Inc.Resolved # ""
                     THEN FileChangedFor(c, "EnterFile", "", after)
                          \o FileChangedFor(c, "ExitFile", Inc.Resolved, after)
                     ELSE <<>>)]
  /\ UNCHANGED <<pc, Clang, Action, CTChecks, Adjuster, CTFinder,
                 PPCallbacks, Delegate, FixIncludes, FixContributor,
                 SemaSource, Macros, CanonIncludes, parsed, diagst, calls, objects,
                 matchRuns, ppEOF, Log, result>>
  /\ UNCHANGED <<lifetime, Out>>

\* CollectMainFileMacros hears of a macro defined after the preamble and adds
\* it to the structure it was given.
MacroDefined(M) ==
  /\ pc = "execute"
  /\ builtinExited
  /\ InSeq("CollectMainFileMacros", PPCallbacks)
  /\ M \notin Macros
  /\ Out.Macros = "preamble" => M \notin Inputs.Preamble.Macros
  /\ Macros' = IF Out.Macros = "unit" THEN Macros \cup {M} ELSE Macros
  /\ Inputs' = IF Out.Macros = "preamble"
               THEN [Inputs EXCEPT !.Preamble.Macros = @ \cup {M}]
               ELSE Inputs
  /\ UNCHANGED <<pc, Clang, Action, CTChecks, Adjuster, CTFinder,
                 PPCallbacks, Delegate, FixIncludes, FixContributor,
                 SemaSource, Includes, CanonIncludes, ppLog, parsed, diagst,
                 calls, objects, matchRuns, ppEOF, Log, result, lifetime, Directives,
                 Out>>

\* The comment handler of collectIWYUHeaderMaps meets an IWYU pragma after
\* the preamble and adds its mapping to the structure it was given.
IWYUPragma(P) ==
  /\ pc = "execute"
  /\ builtinExited
  /\ P \notin CanonIncludes
  /\ Out.CanonIncludes = "preamble" => P \notin Inputs.Preamble.CanonIncludes
  /\ CanonIncludes' = IF Out.CanonIncludes = "unit"
                      THEN CanonIncludes \cup {P} ELSE CanonIncludes
  /\ Inputs' = IF Out.CanonIncludes = "preamble"
               THEN [Inputs EXCEPT !.Preamble.CanonIncludes = @ \cup {P}]
               ELSE Inputs
  /\ UNCHANGED <<pc, Clang, Action, CTChecks, Adjuster, CTFinder,
                 PPCallbacks, Delegate, FixIncludes, FixContributor,
                 SemaSource, Includes, Macros, ppLog, parsed, diagst, calls, objects,
                 matchRuns, ppEOF, Log, result, lifetime, Directives, Out>>

\* DeclTrackingASTConsumer::HandleTopLevelDecl
HandleTopLevelDecl(DG) ==
  /\ pc = "execute"
  /\ nGroups < MaxGroups
  /\ nGroups' = nGroups + 1
  /\ lastDG' = DG
  /\ TopLevelDecls' = TrackDecls(TopLevelDecls, DG)
  /\ UNCHANGED <<pc, Inputs, session, ppLog, ParsedDecls, TraversalScope,
                 Collecting, Tokens, builtinExited, lexed, diagst, calls, objects,
                 matchRuns, ppEOF, Log, result>>
  /\ UNCHANGED <<lifetime, Directives, Out>>

\* The preprocessor lexes a token; the TokenCollector records it while it
\* has not been consumed.
LexToken ==
  /\ \/ pc = "execute"
     \/ pc = "matching" /\ CTFinder # {}
  /\ lexed < MaxTokens
  /\ lexed' = lexed + 1
  /\ Tokens' = IF Collecting THEN Append(Tokens, lexed + 1) ELSE Tokens
  /\ UNCHANGED <<pc, Inputs, session, ppLog, TopLevelDecls, lastDG,
                 ParsedDecls, TraversalScope, Collecting, builtinExited,
                 nGroups, diagst, calls, objects, matchRuns, ppEOF, Log, result>>
  /\ UNCHANGED <<lifetime, Directives, Out>>

\* Who can report Info now: the compiler and the listening checks while the
\* file is parsed, the matching checks in matchAST, the listening checks again
\* when the preprocessor is told of the end of the file.
CanEmit(Info) ==
  \/ pc = "execute" /\ (Info.check = "" \/ Info.check \in ListeningChecks)
  \/ pc = "matching" /\ Info.check \in CTFinder
  \/ pc = "eof" /\ Info.check \in ListeningChecks

\* StoreDiags::HandleDiagnostic with the adjuster and the fix contributor
\* build gave it: the Diag it stores.
StoredDiag(Info) ==
  MkDiag("ast", Len(ASTDiags) + 1, Info,
         IF Adjuster THEN LevelAdjuster(Info.level, Info) ELSE Info.level,
         IF FixContributor THEN FixResult(FixIncludes, Info) ELSE <<>>)

\* The DiagnosticsEngine reports Info to its client.
EmitDiag(Info, max) ==
  /\ CanEmit(Info)
  /\ Len(ASTDiags) + ignoredDiags < max
  /\ IF DiagClient = "ASTDiags"
     THEN LET asks == FixContributor /\ FixAsksIndex(FixIncludes, Info)
          IN  /\ ASTDiags' = Append(ASTDiags, StoredDiag(Info))
              /\ FixIncludes' = IF asks
                                THEN [FixIncludes EXCEPT !.count = @ + 1]
                                ELSE FixIncludes
              /\ indexQueries' = indexQueries + (IF asks THEN 1 ELSE 0)
              /\ UNCHANGED ignoredDiags
     ELSE /\ ignoredDiags' = ignoredDiags + 1
          /\ UNCHANGED <<ASTDiags, FixIncludes, indexQueries>>
  /\ UNCHANGED <<pc, Inputs, Clang, Action, CTChecks, Adjuster, CTFinder,
                 PPCallbacks, Delegate, FixContributor, SemaSource, Includes,
                 Macros, CanonIncludes, ppLog, parsed, DiagClient, calls, objects,
                 matchRuns, ppEOF, Log, result>>
  /\ UNCHANGED <<lifetime, Directives, Out>>

----------------------------------------------------------------------------
(* build, after the listeners are in place.                                *)

\* ExecuteReturn giving up on an error
ExecuteReturnFails ==
  /\ pc = "execute"
  /\ \E err \in BOOLEAN :
       IF err
       THEN /\ Log' = Append(Log, LogLine("Execute() failed"))
            /\ result' = None
            /\ pc' = "done"
       ELSE /\ pc' = "executed"
            /\ UNCHANGED <<Log, result>>
  /\ UNCHANGED <<Inputs, session, ppLog, parsed, diagst, calls, objects, matchRuns,
                 ppEOF>>
  /\ UNCHANGED <<lifetime, Directives, Out>>

\* Action->Execute() returns; an error is logged and nothing else
ExecuteReturn ==
  /\ pc = "execute"
  /\ \E err \in BOOLEAN :
       Log' = IF err THEN Append(Log, LogLine("Execute() failed")) ELSE Log
  /\ pc' = "executed"
  /\ UNCHANGED <<Inputs, session, ppLog, parsed, diagst, calls, objects, matchRuns,
                 ppEOF, result>>
  /\ UNCHANGED <<lifetime, Directives, Out>>

\* ConsumeTokens leaving the TokenCollector at work
ConsumeTokensStillCollecting ==
  /\ pc = "executed"
  /\ ParsedDecls' = TopLevelDecls
  /\ TopLevelDecls' = <<>>
  /\ pc' = "consumed"
  /\ UNCHANGED <<Inputs, session, ppLog, lastDG, TraversalScope, Tokens,
                 Collecting, builtinExited, nGroups, lexed, diagst, calls, objects,
                 matchRuns, ppEOF, Log, result>>
  /\ UNCHANGED <<lifetime, Directives, Out>>

\* std::move(CollectTokens).consume() and Action->takeTopLevelDecls()
ConsumeTokens ==
  /\ pc = "executed"
  /\ Collecting' = FALSE
  /\ ParsedDecls' = TopLevelDecls
  /\ TopLevelDecls' = <<>>
  /\ pc' = "consumed"
  /\ UNCHANGED <<Inputs, session, ppLog, lastDG, TraversalScope, Tokens,
                 builtinExited, nGroups, lexed, diagst, calls, objects, matchRuns,
                 ppEOF, Log, result>>
  /\ UNCHANGED <<lifetime, Directives, Out>>

\* Clang->getASTContext().setTraversalScope(ParsedDecls)
SetTraversalScope ==
  /\ pc = "consumed"
  /\ TraversalScope' = [absent |-> FALSE, decls |-> ParsedDecls]
  /\ pc' = "scoped"
  /\ UNCHANGED <<Inputs, session, ppLog, TopLevelDecls, lastDG, ParsedDecls,
                 Collecting, Tokens, builtinExited, nGroups, lexed, diagst,
                 calls, objects, matchRuns, ppEOF, Log, result>>
  /\ UNCHANGED <<lifetime, Directives, Out>>

\* CTFinder.matchAST is entered
MatchAST ==
  /\ pc = "scoped"
  /\ matchRuns' = matchRuns + 1
  /\ pc' = "matching"
  /\ UNCHANGED <<Inputs, session, ppLog, parsed, diagst, calls, objects, ppEOF, Log,
                 result>>
  /\ UNCHANGED <<lifetime, Directives, Out>>

\* matchAST has returned: setClient(new IgnoreDiagnostics),
\* ASTDiags.EndSourceFile() and the call of Preprocessor::EndSourceFile()
EndSourceFile ==
  /\ pc = "matching"
  /\ DiagClient' = "Ignore"
  /\ ppEOF' = ppEOF + 1
  /\ pc' = "eof"
  /\ UNCHANGED <<Inputs, session, ppLog, parsed, ASTDiags, ignoredDiags,
                 indexQueries, calls, objects, matchRuns, Log, result>>
  /\ UNCHANGED <<lifetime, Directives, Out>>

\* The lines from "std::vector<Diag> Diags" to the return of the ParsedAST
Assemble ==
  /\ pc = "eof"
  /\ result' =
       [state |-> "unit",
        Preamble |-> Inputs.Preamble,
        Clang |-> Clang,
        Action |-> Action,
        Tokens |-> Tokens,
        Macros |-> Macros,
        LocalTopLevelDecls |-> ParsedDecls,
        Diags |-> AssembleDiags(Inputs.CompilerInvocationDiags, HasPreamble,
                                IF HasPreamble THEN Inputs.Preamble.Diags
                                ELSE <<>>,
                                ASTDiags),
        Includes |-> Includes,
        CanonIncludes |-> CanonIncludes]
  /\ pc' = "done"
  /\ UNCHANGED <<Inputs, session, ppLog, parsed, diagst, calls, objects, matchRuns,
                 ppEOF, Log>>
  /\ UNCHANGED <<lifetime, Directives, Out>>

\* build is called again with the same arguments: all its locals are new.
Rebuild ==
  /\ pc = "done"
  /\ builds < MaxBuilds
  /\ builds' = builds + 1
  /\ queriesBefore' = indexQueries
  /\ pc' = "start"
  /\ Clang' = FALSE
  /\ Action' = "none"
  /\ CTChecks' = {}
  /\ Adjuster' = FALSE
  /\ CTFinder' = {}
  /\ PPCallbacks' = <<>>
  /\ Delegate' = <<>>
  /\ FixIncludes' = NoFixer
  /\ FixContributor' = FALSE
  /\ SemaSource' = FALSE
  /\ Includes' = <<>>
  /\ Macros' = {}
  /\ CanonIncludes' = {}
  /\ ppLog' = [c \in Listeners |-> <<>>]
  /\ ASTDiags' = <<>>
  /\ DiagClient' = "ASTDiags"
  /\ TopLevelDecls' = <<>>
  /\ lastDG' = <<>>
  /\ ParsedDecls' = <<>>
  /\ TraversalScope' = NoScope
  /\ Collecting' = FALSE
  /\ Tokens' = <<>>
  /\ builtinExited' = FALSE
  /\ matchRuns' = 0
  /\ ppEOF' = 0
  /\ nGroups' = 0
  /\ lexed' = 0
  /\ ignoredDiags' = 0
  /\ Log' = <<>>
  /\ result' = NotReturned
  /\ PPOwners' = {}
  /\ SemaAlive' = FALSE
  /\ dtor' = "none"
  /\ Directives' = <<>>
  /\ Out' = NoOut
  /\ UNCHANGED <<Inputs, indexQueries, objects>>

----------------------------------------------------------------------------
(* ~ParsedAST on the unit build returned, line by line.                    *)

built == <<pc, Inputs, session, ppLog, parsed, diagst, calls, matchRuns, Log,
           result, Directives, Out>>

\* ~ParsedAST entered without the local PP
getPreprocessorPtrDropped ==
  /\ result.state = "unit"
  /\ dtor = "none"
  /\ result.Action = "begun"
  /\ dtor' = "handle"
  /\ UNCHANGED <<built, objects, ppEOF, PPOwners, SemaAlive>>

\* ~ParsedAST is entered, Action is set:
\* auto PP = Clang->getPreprocessorPtr()
getPreprocessorPtr ==
  /\ result.state = "unit"
  /\ dtor = "none"
  /\ result.Action = "begun"
  /\ PPOwners' = PPOwners \cup {"PP"}
  /\ dtor' = "handle"
  /\ UNCHANGED <<built, objects, ppEOF, SemaAlive>>

\* ~ParsedAST going on with the Preprocessor attached
setPreprocessorKept ==
  /\ dtor = "handle"
  /\ dtor' = "detached"
  /\ UNCHANGED <<built, objects, ppEOF, PPOwners, SemaAlive>>

\* Clang->setPreprocessor(nullptr)
setPreprocessor ==
  /\ dtor = "handle"
  /\ PPOwners' = PPOwners \ {"Clang"}
  /\ dtor' = "detached"
  /\ UNCHANGED <<built, objects, ppEOF, SemaAlive>>

\* FrontendAction::EndSourceFile signals the end of the file to the
\* Preprocessor only if the CompilerInstance still has one.
SendsEOF(owners) == "Clang" \in owners

\* Action->EndSourceFile(): the ASTContext and Sema are destroyed
ActionEndSourceFile ==
  /\ dtor = "detached"
  /\ ppEOF' = IF SendsEOF(PPOwners) THEN ppEOF + 1 ELSE ppEOF
  /\ SemaAlive' = FALSE
  /\ dtor' = "ended"
  /\ UNCHANGED <<built, objects, PPOwners>>

\* The closing brace of the if and of the destructor: PP goes out of scope,
\* the members Action and Clang are destroyed.
DestructorReturn ==
  /\ dtor = "ended"
  /\ PPOwners' = {}
  /\ dtor' = "destroyed"
  /\ UNCHANGED <<built, objects, ppEOF, SemaAlive>>

----------------------------------------------------------------------------
(* ParsedAST objects: the constructor build calls, the defaulted move      *)
(* constructor and move assignment, and the destructor as one step.        *)

\* A unique_ptr member is deleted: the session it owned, if any, loses its
\* CompilerInstance (what == "clangDeleted") or its FrontendAction.
Deleted(ss, s, what) ==
  IF s = 0 THEN ss ELSE [ss EXCEPT ![s][what] = @ + 1]

\* build returns ParsedAST(std::move(Preamble), std::move(Clang),
\* std::move(Action), ...) for a session it has just run; the constructor
\* asserts that Clang and Action are set.
Construct(u, s) ==
  /\ units[u].state = "free"
  /\ ~sessions[s].created
  /\ \A t \in 1..(s - 1) : sessions[t].created
  /\ sessions' = [sessions EXCEPT ![s].created = TRUE]
  /\ units' = [units EXCEPT ![u] = [state |-> "live", Clang |-> s,
                                    Action |-> s]]
  /\ UNCHANGED <<built, ppEOF, lifetime, layout>>

\* ParsedAST(ParsedAST &&Other) = default: every member is moved, Other's
\* unique_ptrs are left null.
MoveConstruct(u, Other) ==
  /\ units[u].state = "free"
  /\ units[Other].state = "live"
  /\ units' = [units EXCEPT
                 ![u] = [state |-> "live", Clang |-> units[Other].Clang,
                         Action |-> units[Other].Action],
                 ![Other] = [state |-> "live", Clang |-> 0, Action |-> 0]]
  /\ UNCHANGED <<built, ppEOF, lifetime, sessions, layout>>

\* operator=(ParsedAST &&Other) = default: every member is move-assigned; a
\* unique_ptr deletes what it held before it takes Other's.
MoveAssign(u, Other) ==
  /\ u # Other
  /\ units[u].state = "live"
  /\ units[Other].state = "live"
  /\ sessions' = Deleted(Deleted(sessions, units[u].Clang, "clangDeleted"),
                         units[u].Action, "actionDeleted")
  /\ units' = [units EXCEPT
                 ![u] = [state |-> "live", Clang |-> units[Other].Clang,
                         Action |-> units[Other].Action],
                 ![Other] = [state |-> "live", Clang |-> 0, Action |-> 0]]
  /\ UNCHANGED <<built, ppEOF, lifetime, layout>>

\* ~ParsedAST: if (Action) the teardown with Action->EndSourceFile(); then
\* the members Action and Clang are destroyed.
Destroy(u) ==
  /\ units[u].state = "live"
  /\ LET a == units[u].Action
         ended == IF a # 0 THEN [sessions EXCEPT ![a].ended = @ + 1]
                  ELSE sessions
     IN  sessions' = Deleted(Deleted(ended, a, "actionDeleted"),
                             units[u].Clang, "clangDeleted")
  /\ units' = [units EXCEPT ![u] = NoUnit]
  /\ UNCHANGED <<built, ppEOF, lifetime, layout>>

----------------------------------------------------------------------------
(* Specifications.  All of them run the same build; they differ in which   *)
(* arguments vary and in what the compiler is made to report while the     *)
(* file is parsed.                                                         *)

BuildSteps ==
  \/ Prepare
  \/ BeginSourceFile
  \/ TidyInit
  \/ FixerSetup
  \/ AttachListeners
  \/ FileChanged
  \/ ExecuteReturn
  \/ ConsumeTokens
  \/ SetTraversalScope
  \/ MatchAST
  \/ EndSourceFile
  \/ Assemble

\* The returned unit is destroyed.
Teardown ==
  \/ getPreprocessorPtr
  \/ setPreprocessor
  \/ ActionEndSourceFile
  \/ DestructorReturn

IncA == IncRec(<<"\"", "a", ".", "h", "\"">>, "/a.h", 0, "user")
IncU == IncRec(<<"\"", "u", "\"">>, "", 2, "user")
VarInMain == [cls |-> "VarDecl", inMain |-> TRUE, tsk |-> "TSK_Undeclared"]
VarInHeader == [cls |-> "VarDecl", inMain |-> FALSE, tsk |-> "TSK_Undeclared"]
UnresolvedKnown == DiagInfo("Error", "", TRUE, TRUE, "none", "known")
UnresolvedUnknown == DiagInfo("Error", "", TRUE, TRUE, "none", "unknown")
SuppressedWarning(c) == DiagInfo("Warning", c, TRUE, TRUE, "direct", "no")

\* Spec: the whole build, with and without a preamble.
BuildInputs ==
  { MkInputs(pre, SegDiags("cfg", k), TRUE, {"R"}, TRUE, TRUE, {"/a.h"},
             DefaultRegistry) :
      pre \in PreambleChoices({<<IncA, IncU>>}), k \in 0..MaxDiagSeg }

BuildDiagInfos == {CoreError, SuppressedWarning("S")}

Init == InitWith(BuildInputs)

Next ==
  \/ BuildSteps
  \/ Teardown
  \/ \E Info \in BuildDiagInfos : EmitDiag(Info, MaxBuildDiags)
  \/ \E DG \in {<<VarInMain>>, <<VarInHeader>>} : HandleTopLevelDecl(DG)
  \/ \E Inc \in {IncRec(<<"\"", "f", "\"">>, "/f", 3, "user")} :
       InclusionDirective(Inc)
  \/ LexToken

Spec == Init /\ [][Next]_vars

\* SpecDecls: the declaration tracker on every kind of declaration group.
DeclInputs ==
  { MkInputs(NoPreamble, <<>>, FALSE, {}, FALSE, TRUE, {}, DefaultRegistry) }

DeclGroups == SeqUpTo(DeclKinds, MaxGroupLen)

InitDecls == InitWith(DeclInputs)

NextDecls ==
  \/ BuildSteps
  \/ \E DG \in DeclGroups : HandleTopLevelDecl(DG)

SpecDecls == InitDecls /\ [][NextDecls]_vars

\* SpecReplay: every preamble include list, every disk, checks that listen
\* to the preprocessor or do not.
ReplayRegistries ==
  { [c \in CheckNames |->
       IF c = "R" THEN CheckImpl(sup, pp, TRUE)
       ELSE CheckImpl(TRUE, spp, TRUE)] :
      sup \in BOOLEAN, pp \in BOOLEAN, spp \in BOOLEAN }

ReplayInputs ==
  { MkInputs(pre, <<>>, FALSE, {}, FALSE, TRUE, disk, reg) :
      pre \in {NoPreamble} \cup
              {MkPreamble(incs, <<>>) : incs \in SeqUpTo(IncRecords, MaxPreInc)},
      disk \in SUBSET Paths,
      reg \in ReplayRegistries }

InitReplay == InitWith(ReplayInputs)

NextReplay ==
  \/ BuildSteps
  \/ \E Inc \in FreshRecords : InclusionDirective(Inc)

SpecReplay == InitReplay /\ [][NextReplay]_vars

\* SpecAdjust: every diagnostic the level adjuster can be asked about.
AdjustRegistry == [c \in CheckNames |-> CheckImpl(TRUE, TRUE, TRUE)]

\* R is configured as error, S is not.
AdjustInputs ==
  { MkInputs(NoPreamble, <<>>, FALSE, {"R"}, FALSE, TRUE, {}, AdjustRegistry) }

\* A diagnostic without a source manager has no location in the main file.
AdjustDiagInfos ==
  { DiagInfo(lvl, chk, loc[1], loc[2], nolint, "no") :
      lvl \in Levels, chk \in {""} \cup CheckNames,
      loc \in {<<TRUE, TRUE>>, <<FALSE, TRUE>>, <<FALSE, FALSE>>},
      nolint \in {"none", "direct", "macro"} }

InitAdjust == InitWith(AdjustInputs)

NextAdjust ==
  \/ BuildSteps
  \/ \E Info \in AdjustDiagInfos : EmitDiag(Info, MaxAdjustDiags)

SpecAdjust == InitAdjust /\ [][NextAdjust]_vars

\* SpecRepair: the include fixer, installed or not.
RepairInputs ==
  { MkInputs(pre, <<>>, suggest, {}, idx, dir, {"/a.h"}, DefaultRegistry) :
      pre \in {NoPreamble, MkPreamble(<<IncA>>, <<>>)},
      suggest \in BOOLEAN, idx \in BOOLEAN, dir \in BOOLEAN }

InitRepair == InitWith(RepairInputs)

NextRepair ==
  \/ BuildSteps
  \/ \E Info \in {CoreError, UnresolvedKnown, UnresolvedUnknown} :
       EmitDiag(Info, MaxRepairDiags)

SpecRepair == InitRepair /\ [][NextRepair]_vars

\* SpecFix: the installed include fixer under more unresolved symbols than
\* it may look up, in consecutive builds.
FixInputs ==
  { MkInputs(NoPreamble, <<>>, TRUE, {}, TRUE, TRUE, {}, DefaultRegistry) }

InitFix == InitWith(FixInputs)

NextFix ==
  \/ BuildSteps
  \/ \E Info \in {UnresolvedKnown, UnresolvedUnknown} :
       EmitDiag(Info, MaxUnresolved)
  \/ Rebuild

SpecFix == InitFix /\ [][NextFix]_vars

\* SpecShare: consecutive builds on one preamble, each adding includes,
\* macros and IWYU mappings of its own.
ShareInputs ==
  { MkInputs(pre, <<>>, FALSE, {}, FALSE, TRUE, {"/a.h"}, DefaultRegistry) :
      pre \in PreambleChoices({<<IncA>>, <<IncA, IncU>>}) }

FreshMacros == {"FRESH_MACRO"}
FreshMappings == {"fresh-mapping"}

InitShare == InitWith(ShareInputs)

NextShare ==
  \/ BuildSteps
  \/ \E Inc \in FreshRecords : InclusionDirective(Inc)
  \/ \E M \in FreshMacros : MacroDefined(M)
  \/ \E P \in FreshMappings : IWYUPragma(P)
  \/ Rebuild

SpecShare == InitShare /\ [][NextShare]_vars

\* SpecMove: ParsedAST objects constructed, moved, move-assigned and
\* destroyed in every order.
InitMove == InitWith(FixInputs)

NextMove ==
  \/ \E u \in 1..MaxUnits, s \in 1..MaxSessions : Construct(u, s)
  \/ \E u, Other \in 1..MaxUnits : MoveConstruct(u, Other)
  \/ \E u, Other \in 1..MaxUnits : MoveAssign(u, Other)
  \/ \E u \in 1..MaxUnits : Destroy(u)

SpecMove == InitMove /\ [][NextMove]_vars

\* SpecVector: nextPowerOf2<N>() instantiated and Vector<T, Dim> declared for
\* the sizes N of Args.
Args ==
  {FromNat(n) : n \in 0..MaxSmall}
  \cup {MinusOne(Pow2(k)) : k \in 6..31}
  \cup {Pow2(k) : k \in 6..31}
  \cup {PlusOne(Pow2(k)) : k \in 6..31}
  \cup {MinusOne(Zero), MinusOne(MinusOne(Zero)), {31, 29, 28}}

\* the program instantiates detail::nextPowerOf2<N>()
Instantiate ==
  /\ ~value.done
  /\ value' = [done |-> TRUE, v |-> nextPowerOf2(arg)]
  /\ UNCHANGED <<built, ppEOF, lifetime, units, sessions, arg, vec>>

\* the program declares a Vector<T, Dim> whose sizeof(T[Dim]) is N
DeclareVector ==
  /\ ~vec.declared
  /\ arg # Zero
  /\ vec' = Vector(arg)
  /\ UNCHANGED <<built, ppEOF, lifetime, units, sessions, arg, value>>

InitVector ==
  /\ Inputs \in FixInputs
  /\ FreshSession
  /\ units = [u \in 1..MaxUnits |-> NoUnit]
  /\ sessions = [s \in 1..MaxSessions |-> NoSession]
  /\ arg \in Args
  /\ value = NoValue
  /\ vec = NoVector
  /\ indexQueries = 0
  /\ queriesBefore = 0
  /\ builds = 1

NextVector == Instantiate \/ DeclareVector

SpecVector == InitVector /\ [][NextVector]_vars

----------------------------------------------------------------------------
(* Properties.                                                             *)

Returned == result.state = "unit"
SessionStarted == Clang /\ Action = "begun"
ExecuteFailed == InSeq(LogLine("Execute() failed"), Log)
PreambleDiags == IF HasPreamble THEN Inputs.Preamble.Diags ELSE <<>>
PreambleIncludes == IF HasPreamble THEN Inputs.Preamble.Includes ELSE <<>>

\* The elements of seq that come from segment seg, in order
Segment(seq, seg) ==
  LET from(d) == d.seg = seg IN SelectSeq(seq, from)

SegRank(seg) == IF seg = "cfg" THEN 1 ELSE IF seg = "pre" THEN 2 ELSE 3

\* C1: the diagnostics of a returned unit are the configuration-time
\* diagnostics, then the preamble's diagnostics if and only if a preamble was
\* given, then the diagnostics stored while this unit was built; each segment
\* in its own order, no segment interleaved with another.
C1_DiagnosticSegments ==
  Returned =>
    LET D == result.Diags IN
    /\ Segment(D, "cfg") = Inputs.CompilerInvocationDiags
    /\ Segment(D, "pre") = PreambleDiags
    /\ Segment(D, "ast") = ASTDiags
    /\ Len(D) = Len(Inputs.CompilerInvocationDiags) + Len(PreambleDiags)
                + Len(ASTDiags)
    /\ \A i, j \in DOMAIN D : i < j => SegRank(D[i].seg) <= SegRank(D[j].seg)
    /\ ~HasPreamble => \A i \in DOMAIN D : D[i].seg # "pre"

\* A unit built with a preamble, all three segments present
C1_Witness ==
  /\ Returned
  /\ HasPreamble
  /\ Len(Inputs.CompilerInvocationDiags) = 2
  /\ Len(PreambleDiags) = 2
  /\ Len(ASTDiags) = 2

\* C2: build returns no unit exactly when the session could not start
\* (prepareCompilerInstance or BeginSourceFile failed); then no check was
\* created, no listener attached, no fixer installed, nothing parsed or
\* stored; in every other case, an Execute error included, it returns a unit.
C2_NoneIffSessionStartFails ==
  /\ pc = "done" <=> result.state # "NotReturned"
  /\ pc = "done" => (result.state = "None" <=> ~SessionStarted)
  /\ pc = "done" /\ SessionStarted => Returned
  /\ result.state = "None" =>
       /\ CTChecks = {} /\ ~Adjuster /\ CTFinder = {}
       /\ PPCallbacks = <<>> /\ Delegate = <<>>
       /\ FixIncludes.absent /\ ~FixContributor /\ ~SemaSource
       /\ ~Collecting /\ ~builtinExited /\ nGroups = 0 /\ lexed = 0
       /\ TopLevelDecls = <<>> /\ ParsedDecls = <<>> /\ Tokens = <<>>
       /\ ASTDiags = <<>> /\ matchRuns = 0 /\ ppEOF = 0
       /\ \A c \in CheckNames : ppLog[c] = <<>>
       /\ ~ExecuteFailed

\* BeginSourceFile has failed and build has returned None
C2_Witness ==
  /\ pc = "done"
  /\ result.state = "None"
  /\ Log = <<LogLine("BeginSourceFile() failed")>>

\* C3: after Execute reported an error, build goes on: the error is logged,
\* then the tokens are consumed, the traversal scope is set, the matchers
\* run, the end of the input is signalled, in this order, and the unit
\* returned holds the declarations, tokens and diagnostics collected.
C3_ExecuteErrorIsNotFatal ==
  ExecuteFailed =>
    /\ pc \in {"executed", "consumed", "scoped", "matching", "eof", "done"}
    /\ Collecting <=> pc = "executed"
    /\ ~TraversalScope.absent <=> pc \in {"scoped", "matching", "eof", "done"}
    /\ ~TraversalScope.absent => TraversalScope.decls = ParsedDecls
    /\ matchRuns = (IF pc \in {"matching", "eof", "done"} THEN 1 ELSE 0)
    /\ ppEOF = (IF pc \in {"eof", "done"} THEN 1 ELSE 0)
    /\ pc = "done" =>
         /\ Returned
         /\ result.LocalTopLevelDecls = ParsedDecls
         /\ result.Tokens = Tokens
         /\ Segment(result.Diags, "ast") = ASTDiags

\* A unit returned after a failed Execute, with a declaration, a token and a
\* diagnostic collected before the failure
C3_Witness ==
  /\ pc = "done"
  /\ ExecuteFailed
  /\ Returned
  /\ result.LocalTopLevelDecls = <<VarInMain>>
  /\ result.Tokens = <<1>>
  /\ Len(Segment(result.Diags, "ast")) >= 1
  /\ Segment(result.Diags, "ast")[1].check = ""

\* The declarations the tracker, build and the unit hold
TrackedDecls ==
  {TopLevelDecls[i] : i \in DOMAIN TopLevelDecls}
  \cup {ParsedDecls[i] : i \in DOMAIN ParsedDecls}
  \cup (IF TraversalScope.absent THEN {}
        ELSE {TraversalScope.decls[i] : i \in DOMAIN TraversalScope.decls})
  \cup (IF Returned
        THEN {result.LocalTopLevelDecls[i] :
                i \in DOMAIN result.LocalTopLevelDecls}
        ELSE {})

\* C4: whatever declaration groups the tracker was handed, every declaration
\* it keeps (and so every top-level declaration of the unit) is located in
\* the main file, is no implicit template instantiation and is no
\* Objective-C method declaration.
C4_TopLevelDeclsFiltered ==
  \A D \in TrackedDecls :
    /\ D.inMain
    /\ D.tsk # "TSK_ImplicitInstantiation"
    /\ D.cls # "ObjCMethodDecl"

\* Two groups were handed, the last an Objective-C method in the main file;
\* the unit holds only the variable of the first
C4_Witness ==
  /\ Returned
  /\ nGroups = 2
  /\ lastDG = <<[cls |-> "ObjCMethodDecl", inMain |-> TRUE,
                 tsk |-> "TSK_Undeclared"]>>
  /\ result.LocalTopLevelDecls = <<VarInMain>>

\* The checks whose listener is on the chain before ReplayPreamble attaches
RegisteredListeners ==
  {c \in CheckNames : Inputs.Registry[c].supported /\ Inputs.Registry[c].pp}

\* What listener c has received from the replay, in order
Replayed(c) ==
  LET isReplay(n) == n.src = "replay" IN SelectSeq(ppLog[c], isReplay)

ReplayedInclusions(c) ==
  LET isInc(n) == n.kind = "InclusionDirective" IN SelectSeq(Replayed(c), isInc)

\* C5: in a build with a preamble of N main-file includes, once replay has
\* run every listener registered before it has received exactly N inclusion
\* notifications, the i-th with the i-th record's spelling without its two
\* delimiters and with angled set exactly for an angle-bracketed spelling.
C5_ReplayDeliversEveryInclude ==
  HasPreamble /\ builtinExited =>
    \A c \in RegisteredListeners :
      LET got == ReplayedInclusions(c)
          recs == Inputs.Preamble.Includes
      IN  /\ Len(got) = Len(recs)
          /\ \A i \in DOMAIN recs :
               LET W == recs[i].Written IN
               /\ W = <<W[1]>> \o got[i].written \o <<W[Len(W)]>>
               /\ got[i].angled <=> (W[1] = "<" /\ W[Len(W)] = ">")

\* Replay has run over a quoted and an angled include, R listening
C5_Witness ==
  /\ HasPreamble
  /\ builtinExited
  /\ "R" \in RegisteredListeners
  /\ Len(Inputs.Preamble.Includes) = 2
  /\ Inputs.Preamble.Includes[1].Written = <<"\"", "a", ".", "h", "\"">>
  /\ Inputs.Preamble.Includes[2].Written = <<"<", "b", ">">>
  /\ Len(ReplayedInclusions("R")) = 2

\* Inc can still be opened when the replay runs
CanOpen(Inc) == Inc.Resolved # "" /\ Inc.Resolved \in Inputs.Disk

\* C6: the replay sends, for each cached include in turn, its inclusion
\* notification and then exactly one more: "file skipped" when the record
\* has a resolved path that can still be opened, "file not found"
\* otherwise; an include that cannot be opened does not end the replay.
C6_ReplaySkippedOrNotFound ==
  HasPreamble /\ builtinExited =>
    \A c \in RegisteredListeners :
      LET got == Replayed(c)
          recs == Inputs.Preamble.Includes
      IN  /\ Len(got) = 2 * Len(recs)
          /\ \A i \in DOMAIN recs :
               /\ got[2 * i - 1].kind = "InclusionDirective"
               /\ got[2 * i - 1].hashLoc = recs[i].HashOffset
               /\ got[2 * i].kind = (IF CanOpen(recs[i]) THEN "FileSkipped"
                                     ELSE "FileNotFound")
               /\ got[2 * i].hashLoc = recs[i].HashOffset

\* The first cached include is gone from the disk, the second is there, and
\* the listener has heard of both
C6_Witness ==
  /\ HasPreamble
  /\ builtinExited
  /\ "R" \in RegisteredListeners
  /\ Len(Inputs.Preamble.Includes) = 2
  /\ Inputs.Preamble.Includes[1].Resolved = "/b"
  /\ ~CanOpen(Inputs.Preamble.Includes[1])
  /\ CanOpen(Inputs.Preamble.Includes[2])
  /\ Len(Replayed("R")) = 4
  /\ Replayed("R")[2].kind = "FileNotFound"
  /\ Replayed("R")[4].kind = "FileSkipped"

\* The diagnostics stored so far and those of the returned unit
StoredDiags ==
  {ASTDiags[i] : i \in DOMAIN ASTDiags}
  \cup (IF Returned THEN {result.Diags[i] : i \in DOMAIN result.Diags}
        ELSE {})

\* C7: a warning of a check that is configured as error is stored as an
\* error, never as ignored, a suppression comment on its line in the main
\* file notwithstanding.
C7_EscalationBeatsSuppression ==
  \A d \in StoredDiags :
    d.check # "" /\ d.orig = "Warning" /\ d.check \in Inputs.WarningsAsErrors
      => d.level = "Error"

\* R is configured as error; its warning in the main file under a NOLINT
\* comment was stored as an error
C7_Witness ==
  \E d \in StoredDiags :
    /\ d.check = "R" /\ d.check \in Inputs.WarningsAsErrors
    /\ d.orig = "Warning" /\ d.inMain /\ d.hasSM /\ d.nolint = "direct"
    /\ d.level = "Error"

\* C8: a warning of a check that is not configured as error, located in the
\* main file and covered there by a suppression comment, is stored as
\* ignored; a comment that covers it only through a macro expansion does not
\* count.
C8_SuppressionWhenNotEscalated ==
  \A d \in StoredDiags :
    d.check # "" /\ d.orig = "Warning" /\ d.check \notin Inputs.WarningsAsErrors
    /\ d.hasSM /\ d.inMain
      => /\ d.nolint = "direct" => d.level = "Ignored"
         /\ d.nolint = "macro" => d.level = "Warning"

\* S is not configured as error; its warning in the main file under a NOLINT
\* comment was stored as ignored
C8_Witness ==
  \E d \in StoredDiags :
    /\ d.check = "S" /\ d.check \notin Inputs.WarningsAsErrors
    /\ d.orig = "Warning" /\ d.inMain /\ d.hasSM /\ d.nolint = "direct"
    /\ d.level = "Ignored"

\* C9: in one build the index receives at most 5 requests, however many
\* unresolved symbols are reported; every build starts with the full budget
\* (its first 5 unresolved symbols are looked up); after that diagnostics are
\* stored without a fix and build still returns its unit.
C9_AtMostFiveIndexQueries ==
  /\ indexQueries - queriesBefore <= 5
  /\ \A i \in DOMAIN ASTDiags :
       /\ i > 5 => ASTDiags[i].fixes = <<>>
       /\ i <= 5 /\ ASTDiags[i].unres = "known" => ASTDiags[i].fixes # <<>>
  /\ Len(ASTDiags) >= 5 => indexQueries - queriesBefore = 5
  /\ pc = "done" /\ SessionStarted => Returned

\* The second build has returned its unit after six unresolved symbols,
\* the first build having used its five requests
C9_Witness ==
  /\ builds = 2
  /\ queriesBefore = 5
  /\ indexQueries = 10
  /\ Len(ASTDiags) = 6
  /\ ASTDiags[6].unres = "known"
  /\ ASTDiags[6].fixes = <<>>
  /\ Returned

AllThree ==
  Inputs.SuggestMissingIncludes /\ Inputs.Index /\ Inputs.BuildDirOK

\* build has passed the lines that install the include fixer
PastFixerSetup ==
  pc \in {"fixer", "execute", "executed", "consumed", "scoped", "matching",
          "eof"}
  \/ (pc = "done" /\ SessionStarted)

\* C10: the include fixer is installed (fix contributor attached, unresolved
\* name recorder set) exactly when suggest-missing-includes is on, an index
\* is given and the working directory is known; otherwise the index is never
\* asked and no diagnostic gets a fix.
C10_FixerInstalledIffAllThree ==
  /\ FixContributor <=> SemaSource
  /\ FixContributor <=> ~FixIncludes.absent
  /\ FixContributor => AllThree
  /\ PastFixerSetup /\ AllThree => FixContributor
  /\ ~AllThree => /\ indexQueries = 0
                  /\ \A d \in StoredDiags : d.fixes = <<>>

\* Without an index, the other two given: an unresolved symbol the index
\* would know was stored without a fix and without a request
C10_Witness ==
  /\ Inputs.SuggestMissingIncludes /\ ~Inputs.Index /\ Inputs.BuildDirOK
  /\ Returned
  /\ ~FixContributor
  /\ indexQueries = 0
  /\ \E i \in DOMAIN ASTDiags :
       ASTDiags[i].unres = "known" /\ ASTDiags[i].fixes = <<>>

\* C11: ~ParsedAST on a unit that owns its Action first takes a handle to the
\* Preprocessor and detaches it from the CompilerInstance, then ends the
\* Action, which destroys the ASTContext and Sema, and only then lets the
\* Preprocessor go; in every state the Preprocessor is alive while the
\* ASTContext and Sema exist.
C11_TeardownOrder ==
  /\ [](SemaAlive => PPOwners # {})
  /\ [][/\ (SemaAlive /\ ~SemaAlive') =>
             /\ dtor = "detached"
             /\ PPOwners = {"PP"}
             /\ PPOwners' = {"PP"}
        /\ ("Clang" \in PPOwners /\ "Clang" \notin PPOwners') =>
             /\ dtor = "handle"
             /\ "PP" \in PPOwners
             /\ SemaAlive'
        /\ (PPOwners # {} /\ PPOwners' = {}) =>
             /\ dtor = "ended"
             /\ ~SemaAlive]_vars

\* The destructor has detached the Preprocessor, only the handle keeps it
\* alive, and the ASTContext and Sema are still there
C11_Witness ==
  /\ Returned
  /\ dtor = "detached"
  /\ SemaAlive
  /\ PPOwners = {"PP"}

\* C12: from the call of build to the end of ~ParsedAST the Preprocessor is
\* told of the end of the file exactly once: by build, after matchAST has run
\* and while the ASTContext and Sema exist; the destructor does not tell it
\* again.
C12_EndOfInputOnce ==
  /\ [](dtor = "destroyed" => ppEOF = 1)
  /\ [][ppEOF' > ppEOF =>
          /\ ppEOF = 0
          /\ ppEOF' = 1
          /\ pc = "matching"
          /\ matchRuns = 1
          /\ dtor = "none"
          /\ SemaAlive /\ SemaAlive']_vars

\* A unit built and destroyed
C12_Witness ==
  /\ Returned
  /\ dtor = "destroyed"
  /\ matchRuns = 1
  /\ ppEOF = 1
  /\ ~SemaAlive

\* C13: every diagnostic reported between the start of the session and the
\* end-of-file signal, those the checks report when they are told of the end
\* of the file included, is among the diagnostics of the returned unit that
\* were stored while it was built.
C13_EveryDiagnosticStored ==
  Returned =>
    /\ ignoredDiags = 0
    /\ Len(Segment(result.Diags, "ast")) = Len(ASTDiags) + ignoredDiags

\* C14: whenever build returns no unit, because prepareCompilerInstance or
\* because BeginSourceFile failed, a line naming the file has been logged.
C14_SessionStartFailureLogged ==
  result.state = "None" =>
    \E i \in DOMAIN Log : Log[i].file = Inputs.Filename

\* What the preprocessor tells a listener for the directive Inc
AsNotified(Inc) ==
  Notification("InclusionDirective", drop_back(drop_front(Inc.Written)),
               startswith(Inc.Written, "<"), Inc.Resolved, Inc.HashOffset,
               "live")

\* The notifications of fresh #include directives c has received, in order
LiveInclusions(c) ==
  LET live(n) == n.kind = "InclusionDirective" /\ n.src = "live"
  IN  SelectSeq(ppLog[c], live)

\* C15: a listener receives every replayed notification before the
\* notification of any #include directive after the preamble, and those in
\* the order of the directives in the file: the replay happens when the
\* preprocessor leaves <built-in>, before any directive of the main file.
C15_ReplayedBeforeFresh ==
  /\ [](\A c \in Listeners :
          /\ \A i, j \in DOMAIN ppLog[c] :
               (/\ ppLog[c][i].kind = "InclusionDirective"
                /\ ppLog[c][i].src = "live"
                /\ ppLog[c][j].src = "replay") => j < i
          /\ InSeq(c, PPCallbacks) =>
               LiveInclusions(c) =
                 [i \in DOMAIN Directives |-> AsNotified(Directives[i])]
          /\ ~builtinExited => ppLog[c] = <<>>)
  /\ [][\A c \in Listeners :
          Replayed(c)' # Replayed(c) =>
            /\ ~builtinExited /\ builtinExited'
            /\ Directives = <<>> /\ Directives' = <<>>]_vars

\* A check has received two replayed includes and then two different fresh
\* ones
C15_Witness ==
  /\ Len(Replayed("R")) = 4
  /\ Len(LiveInclusions("R")) = 2
  /\ Directives[1] # Directives[2]

\* C16: when build has no preamble, or no callback is registered on the
\* preprocessor when ReplayPreamble::attach runs, there is no replay: no
\* ReplayPreamble in the chain, and no listener ever receives a replayed
\* InclusionDirective, FileSkipped or FileNotFound.
C16_ReplaySkippedEntirely ==
  (~HasPreamble \/ RegisteredListeners = {}) =>
    /\ ~InSeq("ReplayPreamble", PPCallbacks)
    /\ Delegate = <<>>
    /\ \A c \in Listeners : Replayed(c) = <<>>

\* A unit built with a preamble of two includes and no listening check: the
\* collectors have heard of the file changes, and of nothing replayed
C16_Witness ==
  /\ Returned
  /\ HasPreamble
  /\ Len(PreambleIncludes) = 2
  /\ RegisteredListeners = {}
  /\ builtinExited
  /\ ppLog["IncludeCollector"] # <<>>

\* C17: build never changes the PreambleData it is given (its includes,
\* macros, canonical-include mappings and diagnostics are after every step
\* what they were before it), the includes, macros and mappings found after
\* the preamble are added to the unit's own copies, and a later build on the
\* same preamble starts from the preamble's facts alone.
C17_PreambleNeverMutated ==
  /\ [][Inputs' = Inputs]_vars
  /\ [](HasPreamble /\ Out # NoOut =>
          /\ Includes = Inputs.Preamble.Includes \o Directives
          /\ Inputs.Preamble.Macros \subseteq Macros
          /\ Macros \subseteq Inputs.Preamble.Macros \cup FreshMacros
          /\ Inputs.Preamble.CanonIncludes \subseteq CanonIncludes
          /\ CanonIncludes \subseteq
               Inputs.Preamble.CanonIncludes \cup FreshMappings
          /\ ~builtinExited =>
               /\ Macros = Inputs.Preamble.Macros
               /\ CanonIncludes = Inputs.Preamble.CanonIncludes
          /\ Returned => Segment(result.Diags, "pre") = Inputs.Preamble.Diags)

\* The second build on a preamble has returned a unit with an include, a
\* macro and a mapping of its own next to the preamble's
C17_Witness ==
  /\ builds = 2
  /\ Returned
  /\ HasPreamble
  /\ Len(Directives) = 1
  /\ result.Includes = Inputs.Preamble.Includes \o Directives
  /\ result.Macros = Inputs.Preamble.Macros \cup FreshMacros
  /\ result.CanonIncludes = Inputs.Preamble.CanonIncludes \cup FreshMappings
  /\ Len(Inputs.Preamble.Diags) = 2

\* How often x occurs in seq
Count(x, seq) == Cardinality({i \in DOMAIN seq : seq[i] = x})

\* C18: the include collector never receives a replayed notification: from
\* the moment the collectors are in place the unit's includes are the
\* preamble's includes followed by the directives met after the preamble, in
\* their order, and every Inclusion of the preamble occurs in them as often
\* as in the preamble, however often it was replayed.
C18_IncludesArePreambleThenFresh ==
  Out # NoOut =>
    /\ Replayed("IncludeCollector") = <<>>
    /\ Includes = PreambleIncludes \o Directives
    /\ \A i \in DOMAIN PreambleIncludes :
         Count(PreambleIncludes[i], Includes) =
           Count(PreambleIncludes[i], PreambleIncludes)
           + Count(PreambleIncludes[i], Directives)
    /\ Returned => result.Includes = PreambleIncludes \o Directives

\* A unit whose preamble includes were replayed to a check and which met a
\* directive of its own after the preamble
C18_Witness ==
  /\ Returned
  /\ Len(PreambleIncludes) = 2
  /\ Len(Replayed("R")) = 4
  /\ Len(Directives) = 1
  /\ Len(result.Includes) = 3

C20_MatchersOnceAfterParsing ==
  /\ [](Returned =>
          /\ matchRuns = 1
          /\ result.Tokens = Tokens
          /\ TraversalScope = [absent |-> FALSE,
                               decls |-> result.LocalTopLevelDecls])
  /\ [][/\ matchRuns' > matchRuns =>
             /\ matchRuns = 0
             /\ pc = "scoped"
             /\ ~Collecting
             /\ TopLevelDecls = <<>>
             /\ TraversalScope = [absent |-> FALSE, decls |-> ParsedDecls]
             /\ \A i \in DOMAIN ParsedDecls : isInsideMainFile(ParsedDecls[i])
        /\ (matchRuns >= 1 /\ matchRuns' >= 1) =>
             /\ Tokens' = Tokens
             /\ ParsedDecls' = ParsedDecls
             /\ TraversalScope' = TraversalScope
             /\ nGroups' = nGroups]_vars

\* A unit with a declaration of the main file, returned after a check lexed a
\* token while matching: the token is not in the unit
C20_Witness ==
  /\ Returned
  /\ matchRuns = 1
  /\ lexed = 1
  /\ result.Tokens = <<>>
  /\ result.LocalTopLevelDecls = <<VarInMain>>

C22_LevelOtherwiseUnchanged ==
  \A d \in StoredDiags :
    /\ d.check = "" => d.level = d.orig
    /\ (d.check # "" /\ ~(d.hasSM /\ d.inMain)) =>
         d.level = (IF d.orig = "Warning" /\ d.check \in Inputs.WarningsAsErrors
                    THEN "Error" ELSE d.orig)
    /\ d.level # d.orig =>
         \/ /\ d.check # "" /\ d.orig = "Warning"
            /\ d.check \in Inputs.WarningsAsErrors /\ d.level = "Error"
         \/ /\ d.check # "" /\ d.hasSM /\ d.inMain /\ d.nolint = "direct"
            /\ d.level = "Ignored"

\* A warning of S outside the main file, on a line with a NOLINT comment, was
\* stored as a warning
C22_Witness ==
  \E d \in StoredDiags :
    /\ d.check = "S" /\ d.check \notin Inputs.WarningsAsErrors
    /\ d.orig = "Warning" /\ ~d.inMain /\ d.hasSM /\ d.nolint = "direct"
    /\ d.level = "Warning"

\* The sessions no ParsedAST object owns any more
Owned(s) ==
  \E u \in 1..MaxUnits :
    units[u].state = "live" /\ (units[u].Clang = s \/ units[u].Action = s)

\* C23: however ParsedAST objects are constructed, moved, move-assigned and
\* destroyed, every session is ended by the teardown of ~ParsedAST exactly
\* once: at most once while an object owns it, once when no object owns it
\* any more, and its CompilerInstance and FrontendAction are deleted after
\* that and once; an object owns both or neither.
C23_SessionTornDownOnce ==
  /\ \A u \in 1..MaxUnits : units[u].Clang = units[u].Action
  /\ \A s \in 1..MaxSessions :
       /\ sessions[s].ended <= 1
       /\ sessions[s].clangDeleted <= 1
       /\ sessions[s].actionDeleted <= 1
       /\ (sessions[s].created /\ Owned(s)) =>
            /\ sessions[s].ended = 0
            /\ sessions[s].clangDeleted = 0
            /\ sessions[s].actionDeleted = 0
       /\ (sessions[s].created /\ ~Owned(s)) =>
            /\ sessions[s].ended = 1
            /\ sessions[s].clangDeleted = 1
            /\ sessions[s].actionDeleted = 1

\* C24: the replay iterates the include list the fresh collector appends to.
\* In the step in which the preprocessor leaves <built-in> and the replay
\* runs, that list holds exactly the preamble's records (no directive after
\* the preamble has been seen), the step leaves the list as it is, and what
\* each listener registered before ReplayPreamble is replayed are the
\* notifications of exactly the preamble's main-file includes; the include
\* collector is replayed nothing.
C24_ReplayIteratesPreambleRecords ==
  [][(HasPreamble /\ ~builtinExited /\ builtinExited') =>
       /\ Directives = <<>>
       /\ Includes = PreambleIncludes
       /\ Includes' = Includes
       /\ Inputs' = Inputs
       /\ \A c \in Listeners :
            LET isReplay(n) == n.src = "replay"
                replayed == SelectSeq(ppLog'[c], isReplay)
            IN  /\ InSeq(c, Delegate) => replayed = replay(PreambleIncludes)
                /\ ~InSeq(c, Delegate) => replayed = <<>>]_vars

\* The replay of a preamble of two different includes has run for check S,
\* the collector has since appended one fresh include to the same list
C24_Witness ==
  /\ HasPreamble
  /\ builtinExited
  /\ Len(PreambleIncludes) = 2
  /\ PreambleIncludes[1] # PreambleIncludes[2]
  /\ Replayed("S") = replay(PreambleIncludes)
  /\ Replayed("S") # <<>>
  /\ Replayed("IncludeCollector") = <<>>
  /\ Len(Directives) = 1
  /\ Includes = PreambleIncludes \o Directives

\* The powers of two an unsigned can hold
PowersOf2 == {Pow2(k) : k \in 0..31}

\* P is the smallest power of two that is not below N
SmallestPowerOf2AtLeast(P, N) ==
  /\ P \in PowersOf2
  /\ ~Less(P, N)
  /\ \A Q \in PowersOf2 : ~Less(Q, N) => ~Less(Q, P)

\* The layout of a declared Vector that compiles: a payload that is a power
\* of two gets no padding; any other payload S is padded to a power of two P
\* with S < P < 2*S
VectorPadded ==
  (vec.declared /\ vec.compiles) =>
    IF vec.payload \in PowersOf2
    THEN vec.padding = Zero /\ vec.size = vec.payload
    ELSE /\ vec.size \in PowersOf2
         /\ vec.size = Plus(vec.payload, vec.padding)
         /\ Less(vec.payload, vec.size)
         /\ Less(DivTwo(vec.size), vec.payload)

\* nextPowerOf2<N>() for the N it has a power of two for, N <= 2^31
NextPowerOf2UpToTopBit ==
  (value.done /\ ~Less(Pow2(31), arg)) =>
    IF arg = Zero THEN value.v = One
    ELSE SmallestPowerOf2AtLeast(value.v, arg)

\* C25: for every N >= 1, nextPowerOf2<N>() is the smallest power of two
\* that is >= N, and nextPowerOf2<0>() is 1; a 1-D vector whose payload is
\* not a power of two is padded to a power of two P with S < P < 2*S, one
\* whose payload is a power of two gets no padding.
C25_NextPowerOf2 ==
  /\ value.done =>
       IF arg = Zero THEN value.v = One
       ELSE SmallestPowerOf2AtLeast(value.v, arg)
  /\ VectorPadded

====
